---- MODULE Spec2Model ----
(***************************************************************************)
(* A model of the BRAINS hysteron-measurement program: the SMU and the     *)
(* NIDAQ chassis of instruments.py, the three experiment controllers of    *)
(* experiment.py and the entry point of main.py.                           *)
(*                                                                         *)
(* Voltages and currents are integers (a fixed small unit); np.linspace    *)
(* keeps its end points exactly and its interior points are rounded down   *)
(* to the unit.  Hardware and the operator are the environment: a bus      *)
(* fault (DaqError), a missing reading, the attached modules and the       *)
(* operator's answer are chosen nondeterministically where the code meets  *)
(* them.                                                                   *)
(*                                                                         *)
(* Spec     the process: main.py with each of the three controllers.       *)
(* DevSpec  the device layer called directly, in any order, on constructed *)
(*          devices.                                                       *)
(* WaveSpec the constructor of Waveform (waveform.py) on bounded arguments.*)
(* LimitSpec the construction of an SMU under every configured range.      *)
(* QuerySpec the acquisitions and is_callibrated, called directly.         *)
(***************************************************************************)
EXTENDS Integers, Sequences, FiniteSets, TLC

VARIABLES
    config,         \* the Setup.yaml mapping held by the SetupManager
    pc,             \* position of the process in main.py / run()
    exc,            \* the exception propagating out of the program, or "none"
    runResult,      \* how run() ended
    hooks,          \* TRUE once atexit.register(self.shutdown) has been executed
    smu,            \* the SMU object and its Keithley2400 device
    smuLog,         \* the device commands of SMU.__init__, in issue order
    chassis,        \* the NIDAQ_chassis object and its channels
    input_data,     \* the setpoints read by get_input_data()
    idx,            \* number of setpoints taken from input_data by the loop of run()
    results,        \* the list run() accumulates (voltages / currents)
    sink,           \* the flushes received by the SetupManager, in order
    shutdownCalls,  \* completed invocations of the controller's shutdown()
    warnings,       \* number of log_warning calls
    errors,         \* number of log_error calls
    last            \* DevSpec: the most recent direct device call and its outcome

vars == <<config, pc, exc, runResult, hooks, smu, smuLog, chassis, input_data,
          idx, results, sink, shutdownCalls, warnings, errors, last>>

(***************************************************************************)
(* Bounds of the model.                                                    *)
(***************************************************************************)
MaxDensity == 1         \* data_density ranges over 1..MaxDensity
MaxRampPoints == 2      \* ramp_points ranges over 1..MaxRampPoints
MaxVolt == 2            \* configured voltages and call arguments lie in -MaxVolt..MaxVolt
MaxCalls == 2           \* DevSpec: number of direct device calls
MaxWave == 2            \* WaveSpec: min_value and max_value lie in -MaxWave..MaxWave
MaxPoints == 3          \* WaveSpec: datapoint_per_section ranges over 1..MaxPoints

(***************************************************************************)
(* Program constants.                                                      *)
(***************************************************************************)
CURRENT == "CURRENT_DRIVEN"
VOLTAGE == "VOLTAGE_DRIVEN"
NGR_READOUT_ID == 5
VI_ACTIVATION_ID == 6
VI_READOUT_ID == 13

Variants == {"RNPU_Experiment", "NGR_Experiment", "VI_NIDAQ_Only"}

\* Values the drive_mode key of the configuration may hold.
DriveModeValues == {CURRENT, VOLTAGE, "CURENT_DRIVEN"}

\* The modules a chassis may hold.
Modules == {"cDAQ1Mod1", "cDAQ1Mod2"}

\* The activation channel sets the configurations of the model use.
ActSets == {{VI_ACTIVATION_ID}, {1, VI_ACTIVATION_ID}, {1}}

\* The readout channel sets the configurations of the model use.
ReadoutSets == {{NGR_READOUT_ID, VI_READOUT_ID}, {1}}

Volts == (-MaxVolt)..MaxVolt

Abs(x) == IF x < 0 THEN -x ELSE x

Min2(a, b) == IF a <= b THEN a ELSE b

\* Faulty variant of MinAbs: the magnitude of the smaller bound.
MinAbs_of_min(range) == Abs(Min2(range[1], range[2]))

\* np.min(np.abs(range)) of a two-element range.
MinAbs(range) == Min2(Abs(range[1]), Abs(range[2]))

\* The ids of a dict in iteration order (the configuration lists them ascending).
RECURSIVE SortedIds(_)
SortedIds(S) ==
    IF S = {} THEN <<>>
    ELSE LET m == CHOOSE x \in S : \A y \in S : x <= y
         IN <<m>> \o SortedIds(S \ {m})

\* Faulty variant of Linspace: the samples stop one step short of stop
\* (endpoint=False).
Linspace_open(start, stop, num) ==
    [i \in 1..num |-> start + ((i - 1) * (stop - start)) \div num]

(***************************************************************************)
(* np.linspace(start, stop, num): num evenly spaced samples; the last one  *)
(* is stop when num > 1, and the only one is start when num = 1.           *)
(***************************************************************************)
Linspace(start, stop, num) ==
    [i \in 1..num |->
        IF num > 1 /\ i = num THEN stop
        ELSE IF num = 1 THEN start
        ELSE start + ((i - 1) * (stop - start)) \div (num - 1)]

\* WaveType and a tag that is none of its members.
WaveTypes == {"SAWTOOTH", "LINSPACE", "WILFRED"}

WaveTags == WaveTypes \cup {"UNKNOWN"}

\* Waveform.generate_sawtooth: 0 -> min -> max -> 0.
generate_sawtooth(min_value, max_value, n) ==
    Linspace(0, min_value, n) \o Linspace(min_value, max_value, n)
        \o Linspace(max_value, 0, n)

\* Waveform.generate_linspace
generate_linspace(min_value, max_value, n) == Linspace(min_value, max_value, n)

\* Faulty variant of generate_wilfred: every section has n points.
generate_wilfred_short(min_value, max_value, n) ==
    Linspace(0, min_value, n) \o Linspace(min_value, max_value, n)
        \o Linspace(max_value, min_value, n)
        \o Linspace(min_value, max_value, n)
        \o Linspace(max_value, 0, n)

\* Waveform.generate_wilfred: 0 -> min -> max -> min -> max -> 0.
generate_wilfred(min_value, max_value, n) ==
    Linspace(0, min_value, n) \o Linspace(min_value, max_value, 2 * n)
        \o Linspace(max_value, min_value, 2 * n)
        \o Linspace(min_value, max_value, 2 * n)
        \o Linspace(max_value, 0, n)

\* Waveform.__init__: the data generated for the tag, or the exception raised
\* for a tag that is no WaveType (no _data is set then).
Waveform_init(type, min_value, max_value, datapoint_per_section) ==
    CASE type = "SAWTOOTH" ->
            [data |-> generate_sawtooth(min_value, max_value, datapoint_per_section),
             exc |-> "none", errors |-> 0]
      [] type = "LINSPACE" ->
            [data |-> generate_linspace(min_value, max_value, datapoint_per_section),
             exc |-> "none", errors |-> 0]
      [] type = "WILFRED" ->
            [data |-> generate_wilfred(min_value, max_value, datapoint_per_section),
             exc |-> "none", errors |-> 0]
      [] OTHER -> [data |-> <<>>, exc |-> "ValueError", errors |-> 0]

\* SetupManager._create_input_file then get_input_data: the WILFRED waveform of
\* the configuration, written to the input file and read back.
get_input_data(cfg) ==
    generate_wilfred(cfg.min_value, cfg.max_value, cfg.data_density)

Configs ==
    [variant : Variants,
     drive_mode : DriveModeValues,
     ramp_points : 1..MaxRampPoints,
     data_density : 1..MaxDensity,
     min_value : {-1},
     max_value : {1},
     voltage_range : {<<-MaxVolt, MaxVolt>>},
     current_range : {<<-1, MaxVolt>>},
     activation_module_id : {"cDAQ1Mod1"},
     readout_module_id : {"cDAQ1Mod2"},
     control_voltages : UNION {[A -> {1, MaxVolt}] : A \in ActSets},
     readout_channels : ReadoutSets]

(***************************************************************************)
(* SMU (instruments.py).  The record holds the object's attributes and,    *)
(* under dev, the state of the Keithley2400 it drives; the device keeps    *)
(* its state when the constructor raises.                                  *)
(***************************************************************************)
NoDevice ==
    [connected |-> FALSE, source_mode |-> "unset", compliance_voltage |-> -1,
     compliance_current |-> -1, output |-> FALSE, level |-> 0, ramps |-> 0,
     shutdowns |-> 0]

NoSMU ==
    [constructed |-> FALSE, drive_mode |-> "unset", compliance_voltage |-> 0,
     compliance_current |-> 0, dev |-> NoDevice]

\* Faulty variant of SMU_init_steps: the output is enabled before the operator gate.
SMU_init_steps_enable_first ==
    <<"_get_device", "reset", "clear", "drive_mode", "compliance_voltage",
      "compliance_current", "enable_source", "wait_for_user_input",
      "use_front_terminals", "current_nplc", "source_delay", "trigger_count">>

\* Faulty variant of SMU_init_steps: the compliance limits are pushed and the
\* operator is asked before the drive mode is looked at.
SMU_init_steps_limits_first ==
    <<"_get_device", "reset", "clear", "compliance_voltage",
      "compliance_current", "wait_for_user_input", "drive_mode", "enable_source",
      "use_front_terminals", "current_nplc", "source_delay", "trigger_count">>

\* The statements of SMU.__init__ that touch the device or the operator, in
\* source order.
SMU_init_steps ==
    <<"_get_device", "reset", "clear", "drive_mode", "compliance_voltage",
      "compliance_current", "wait_for_user_input", "enable_source",
      "use_front_terminals", "current_nplc", "source_delay", "trigger_count">>

\* One statement of SMU.__init__ on st = [smu, log, exc, warnings, errors]; a
\* statement after a raised exception is not executed.  present: the device
\* answers at device_id; choice: the operator's answer at the gate ("Y" or
\* "N"; any other answer asks again).
SMU_init_step(st, step, cfg, present, choice) ==
    IF st.exc # "none" THEN st
    ELSE CASE step = "_get_device" ->
                IF present
                THEN [st EXCEPT !.smu.dev.connected = TRUE]
                ELSE [st EXCEPT !.exc = "DeviceNotFoundError",
                                !.warnings = @ + 1, !.errors = @ + 1]
           [] step = "drive_mode" ->
                IF cfg.drive_mode = "CURRENT_DRIVEN"
                THEN [st EXCEPT !.smu.drive_mode = CURRENT,
                                !.smu.dev.source_mode = "current",
                                !.log = Append(@, "apply_current")]
                ELSE IF cfg.drive_mode = "VOLTAGE_DRIVEN"
                THEN [st EXCEPT !.smu.drive_mode = VOLTAGE,
                                !.smu.dev.source_mode = "voltage",
                                !.log = Append(@, "apply_voltage")]
                ELSE [st EXCEPT !.exc = "BadConfigError", !.errors = @ + 1]
           [] step = "compliance_voltage" ->
                [st EXCEPT !.smu.dev.compliance_voltage = MinAbs(cfg.voltage_range),
                           !.log = Append(@, step)]
           [] step = "compliance_current" ->
                [st EXCEPT !.smu.dev.compliance_current = MinAbs(cfg.current_range),
                           !.log = Append(@, step)]
           [] step = "wait_for_user_input" ->
                IF choice = "Y"
                THEN [st EXCEPT !.log = Append(@, "wait_for_user_input:Y")]
                ELSE [st EXCEPT !.log = Append(@, "wait_for_user_input:N"),
                                !.exc = "SystemExit"]
           [] step = "enable_source" ->
                [st EXCEPT !.smu.dev.output = TRUE, !.log = Append(@, step)]
           [] OTHER -> [st EXCEPT !.log = Append(@, step)]

RECURSIVE SMU_init_run(_, _, _, _, _)
SMU_init_run(st, steps, cfg, present, choice) ==
    IF steps = <<>> THEN st
    ELSE SMU_init_run(SMU_init_step(st, Head(steps), cfg, present, choice),
                      Tail(steps), cfg, present, choice)

\* SMU.__init__: the SMU, the commands issued in order, the exception raised
\* and the log calls made.
SMU_init(cfg, present, choice) ==
    LET obj == [NoSMU EXCEPT !.compliance_voltage = MinAbs(cfg.voltage_range),
                             !.compliance_current = MinAbs(cfg.current_range)]
        r == SMU_init_run([smu |-> obj, log |-> <<>>, exc |-> "none",
                           warnings |-> 0, errors |-> 0],
                          SMU_init_steps, cfg, present, choice)
    IN  [r EXCEPT !.smu.constructed = (r.exc = "none")]

\* Faulty variant of SMU_set_voltage: the drive mode is not looked at.
SMU_set_voltage_unguarded(s, voltage) ==
    [smu |-> [s EXCEPT !.dev.level = voltage, !.dev.ramps = @ + 1],
     warnings |-> 0]

\* SMU.set_voltage: the device ramps only in voltage driven mode.
SMU_set_voltage(s, voltage) ==
    IF s.drive_mode = VOLTAGE
    THEN [smu |-> [s EXCEPT !.dev.level = voltage, !.dev.ramps = @ + 1],
          warnings |-> 0]
    ELSE [smu |-> s, warnings |-> 1]

\* SMU.set_current: the device ramps only in current driven mode.
SMU_set_current(s, current) ==
    IF s.drive_mode = CURRENT
    THEN [smu |-> [s EXCEPT !.dev.level = current, !.dev.ramps = @ + 1],
          warnings |-> 0]
    ELSE [smu |-> s, warnings |-> 1]

\* SMU.measure_voltage / measure_current: the device answers a value or None.
SMU_measure(s, reading) ==
    IF reading # "None"
    THEN [exc |-> "none", errors |-> 0]
    ELSE [exc |-> "NoMeasurementError", errors |-> 1]

\* Faulty variant of is_callibrated: a magnitude equal to its tolerance is
\* rejected.
is_callibrated_strict(voltage, current, tolerance_voltage, tolerance_current) ==
    IF Abs(voltage) >= tolerance_voltage \/ Abs(current) >= tolerance_current
    THEN FALSE
    ELSE TRUE

\* SMU.is_callibrated
is_callibrated(voltage, current, tolerance_voltage, tolerance_current) ==
    IF Abs(voltage) > tolerance_voltage \/ Abs(current) > tolerance_current
    THEN FALSE
    ELSE TRUE

\* Faulty variant of SMU_shutdown: the device is reset, which clears the source
\* mode and the compliance limits it holds.
SMU_shutdown_resets(s) ==
    [s EXCEPT !.dev.output = FALSE, !.dev.level = 0, !.dev.shutdowns = @ + 1,
              !.dev.source_mode = NoDevice.source_mode,
              !.dev.compliance_voltage = NoDevice.compliance_voltage,
              !.dev.compliance_current = NoDevice.compliance_current]

\* SMU.shutdown: Keithley2400.shutdown() is issued on every call.
SMU_shutdown(s) ==
    [s EXCEPT !.dev.output = FALSE, !.dev.level = 0, !.dev.shutdowns = @ + 1]

(***************************************************************************)
(* NIDAQ_channel.  bursts counts the write tasks issued on the analog      *)
(* output, lastBurst is the sample sequence of the latest one and nonzero  *)
(* tells whether any of them held a value other than 0.                    *)
(***************************************************************************)
NIDAQ_channel_init ==
    [voltage |-> 0, bursts |-> 0, lastBurst |-> <<>>, nonzero |-> FALSE]

\* Faulty variant of ramp_to_voltage: the target is recorded before the task runs.
ramp_to_voltage_commit_first(ch, target_voltage, ramp_points, fault) ==
    LET voltages == Linspace(ch.voltage, target_voltage, ramp_points)
    IN  [channel |-> [ch EXCEPT
                        !.bursts = @ + 1,
                        !.lastBurst = voltages,
                        !.nonzero = @ \/ \E i \in DOMAIN voltages : voltages[i] # 0,
                        !.voltage = target_voltage],
         exc |-> "none",
         errors |-> IF fault THEN 1 ELSE 0]

\* NIDAQ_channel.ramp_to_voltage; fault: the task raises DaqError, which is
\* caught and logged.
ramp_to_voltage(ch, target_voltage, ramp_points, fault) ==
    LET voltages == Linspace(ch.voltage, target_voltage, ramp_points)
    IN  [channel |-> [ch EXCEPT
                        !.bursts = @ + 1,
                        !.lastBurst = voltages,
                        !.nonzero = @ \/ \E i \in DOMAIN voltages : voltages[i] # 0,
                        !.voltage = IF fault THEN @ ELSE target_voltage],
         exc |-> "none",
         errors |-> IF fault THEN 1 ELSE 0]

\* Faulty variant of set_voltage: the target is recorded before the task runs.
set_voltage_commit_first(ch, target_voltage, fault) ==
    [channel |-> [ch EXCEPT
                    !.bursts = @ + 1,
                    !.lastBurst = <<target_voltage>>,
                    !.nonzero = @ \/ target_voltage # 0,
                    !.voltage = target_voltage],
     exc |-> IF fault THEN "DaqError" ELSE "none",
     errors |-> 0]

\* NIDAQ_channel.set_voltage; fault: the task raises DaqError, which leaves
\* the method.
set_voltage(ch, target_voltage, fault) ==
    [channel |-> [ch EXCEPT
                    !.bursts = @ + 1,
                    !.lastBurst = <<target_voltage>>,
                    !.nonzero = @ \/ target_voltage # 0,
                    !.voltage = IF fault THEN @ ELSE target_voltage],
     exc |-> IF fault THEN "DaqError" ELSE "none",
     errors |-> 0]

\* NIDAQ_channel.shutdown
channel_shutdown(ch, ramp_points, fault) ==
    ramp_to_voltage(ch, 0, ramp_points, fault)

(***************************************************************************)
(* NIDAQ_chassis                                                           *)
(***************************************************************************)
NoChassis ==
    [constructed |-> FALSE, activation_channels |-> <<>>,
     readout_channels |-> <<>>, activation_voltages |-> <<>>]

\* Faulty variant of calibrate_to_zero_all: construction ramps the channels to a
\* non-zero level.
calibrate_energizes(channels, ramp_points, faults) ==
    [c \in DOMAIN channels |->
        ramp_to_voltage(channels[c], MaxVolt, ramp_points, c \in faults).channel]

\* NIDAQ_chassis._calibrate_to_zero_all; faults: the channels whose task faults.
calibrate_to_zero_all(channels, ramp_points, faults) ==
    [c \in DOMAIN channels |->
        ramp_to_voltage(channels[c], 0, ramp_points, c \in faults).channel]

\* NIDAQ_chassis.__init__ with the modules System.local() lists.  A module
\* that is not listed leaves its attribute unset, and building the first
\* channel then fails on reading it.
NIDAQ_chassis_init(cfg, attached, faults) ==
    LET act_ids == DOMAIN cfg.control_voltages
        has_activation == cfg.activation_module_id \in attached
        has_readout == /\ cfg.readout_module_id \in attached
                       /\ cfg.readout_module_id # cfg.activation_module_id
        built == [c \in act_ids |-> NIDAQ_channel_init]
    IN  IF (act_ids # {} \/ cfg.readout_channels # {})
           /\ ~(has_activation /\ has_readout)
        THEN [chassis |-> NoChassis, exc |-> "AttributeError", errors |-> 0]
        ELSE [chassis |->
                [constructed |-> TRUE,
                 activation_channels |->
                    calibrate_to_zero_all(built, cfg.ramp_points, faults),
                 readout_channels |->
                    [c \in cfg.readout_channels |-> NIDAQ_channel_init],
                 activation_voltages |-> cfg.control_voltages],
              exc |-> "none",
              errors |-> Cardinality(faults \cap act_ids)]

\* NIDAQ_chassis.start_active_all_channels; failAt: the channel whose write
\* faults (0: none).  The channels before it have been set, the ones after it
\* are not reached.
start_active_all_channels(ch, failAt) ==
    LET order == SortedIds(DOMAIN ch.activation_voltages)
        pos(c) == CHOOSE i \in DOMAIN order : order[i] = c
        reached(c) == failAt = 0 \/ pos(c) <= pos(failAt)
    IN  [chassis |->
            [ch EXCEPT !.activation_channels =
                [c \in DOMAIN @ |->
                    IF reached(c)
                    THEN set_voltage(@[c], ch.activation_voltages[c],
                                     c = failAt).channel
                    ELSE @[c]]],
         exc |-> IF failAt = 0 THEN "none" ELSE "DaqError"]

\* NIDAQ_chassis.set_voltage(id, target_voltage, ramp)
chassis_set_voltage(ch, id, target_voltage, ramp, ramp_points, fault) ==
    IF id \notin DOMAIN ch.activation_channels
    THEN [chassis |-> ch, exc |-> "KeyError", errors |-> 0]
    ELSE LET r == IF ramp
                  THEN ramp_to_voltage(ch.activation_channels[id], target_voltage,
                                       ramp_points, fault)
                  ELSE set_voltage(ch.activation_channels[id], target_voltage, fault)
         IN  [chassis |-> [ch EXCEPT !.activation_channels[id] = r.channel],
              exc |-> r.exc, errors |-> r.errors]

\* Faulty variant of chassis_shutdown: a channel whose last commanded value is
\* already 0 is left alone.
chassis_shutdown_skip_idle(ch, ramp_points, faults) ==
    [chassis |->
        [ch EXCEPT !.activation_channels =
            [c \in DOMAIN @ |->
                IF @[c].voltage = 0
                THEN @[c]
                ELSE channel_shutdown(@[c], ramp_points, c \in faults).channel]],
     errors |-> Cardinality(faults \cap DOMAIN ch.activation_channels)]

\* NIDAQ_chassis.shutdown; faults: the channels whose ramp faults.
chassis_shutdown(ch, ramp_points, faults) ==
    [chassis |->
        [ch EXCEPT !.activation_channels =
            [c \in DOMAIN @ |->
                channel_shutdown(@[c], ramp_points, c \in faults).channel]],
     errors |-> Cardinality(faults \cap DOMAIN ch.activation_channels)]

\* What task.read(number_of_samples_per_channel=...) may return: a list of
\* samples, possibly empty (none tells whether the object read is None).
Reads == [none : {FALSE}, samples : {<<>>, <<MaxVolt>>, <<0, MaxVolt>>}]

RECURSIVE Sum(_)
Sum(seq) == IF seq = <<>> THEN 0 ELSE Head(seq) + Sum(Tail(seq))

\* np.average: the mean of the samples (rounded down to the unit); of no
\* samples, nan.
average(samples) ==
    IF samples = <<>>
    THEN [nan |-> TRUE, v |-> 0]
    ELSE [nan |-> FALSE, v |-> Sum(samples) \div Len(samples)]

\* NIDAQ_channel.measure_voltage / measure_current: a finite acquisition of the
\* given kind on the analog input.  fault: the task raises DaqError; data: the
\* object task.read returns.
NIDAQ_channel_measure(kind, data, fault) ==
    IF fault
    THEN [kind |-> kind, value |-> average(<<>>), exc |-> "DaqError", errors |-> 0]
    ELSE IF ~data.none
    THEN [kind |-> kind, value |-> average(data.samples), exc |-> "none",
          errors |-> 0]
    ELSE [kind |-> kind, value |-> average(<<>>), exc |-> "NoMeasurementError",
          errors |-> 1]

\* A channel acquisition as the sweeps use it: the kind of the acquisition
\* made stands for the value; outcome is what the task does.
channel_measure(kind, outcome) ==
    LET r == NIDAQ_channel_measure(kind, [none |-> FALSE, samples |-> <<0>>],
                                   outcome = "DaqError")
    IN  [value |-> r.kind, exc |-> r.exc]

\* Faulty variant of chassis_measure_current: an id that is not a readout
\* channel yields no reading instead of a lookup error.
chassis_measure_current_lenient(ch, id, outcome) ==
    IF id \notin DOMAIN ch.readout_channels
    THEN [readings |-> <<>>, exc |-> "none"]
    ELSE LET r == channel_measure("current", outcome)
         IN  [readings |-> [c \in {id} |-> r.value], exc |-> r.exc]

\* NIDAQ_chassis.measure_current(id)
chassis_measure_current(ch, id, outcome) ==
    IF id \notin DOMAIN ch.readout_channels
    THEN [readings |-> <<>>, exc |-> "KeyError"]
    ELSE LET r == channel_measure("current", outcome)
         IN  [readings |-> [c \in {id} |-> r.value], exc |-> r.exc]

\* NIDAQ_chassis.measure_current_all_channels: one measure_voltage() per
\* readout channel; failAt: the channel whose task faults (0: none).
measure_current_all_channels(ch, failAt) ==
    [readings |-> [c \in DOMAIN ch.readout_channels |->
                      channel_measure("voltage", "samples").value],
     exc |-> IF failAt = 0 THEN "none" ELSE "DaqError"]

(***************************************************************************)
(* The experiment controllers (experiment.py)                              *)
(***************************************************************************)
\* The devices a controller's __init__ constructs, in order.
DeviceOrder(variant) ==
    CASE variant = "RNPU_Experiment" -> <<"SMU", "NIDAQ">>
      [] variant = "NGR_Experiment" -> <<"NIDAQ", "SMU">>
      [] variant = "VI_NIDAQ_Only" -> <<"NIDAQ">>

HasSMU(variant) == variant # "VI_NIDAQ_Only"

\* Faulty variant of Experiment_shutdown: a bus fault ends the shutdown at the
\* first faulting channel; the channels after it and the SMU are not reached.
Experiment_shutdown_aborts_on_fault(variant, ch, s, ramp_points, faults) ==
    LET hit == faults \cap DOMAIN ch.activation_channels
        first == CHOOSE c \in hit : \A d \in hit : c <= d
        r == chassis_shutdown(ch, ramp_points, faults)
    IN  IF hit = {}
        THEN [chassis |-> r.chassis,
              smu |-> IF HasSMU(variant) THEN SMU_shutdown(s) ELSE s,
              errors |-> r.errors]
        ELSE [chassis |->
                [ch EXCEPT !.activation_channels =
                    [c \in DOMAIN @ |->
                        IF c <= first THEN r.chassis.activation_channels[c]
                        ELSE @[c]]],
              smu |-> s,
              errors |-> 1]

\* The controller's shutdown(): the chassis, then the SMU where there is one.
Experiment_shutdown(variant, ch, s, ramp_points, faults) ==
    LET r == chassis_shutdown(ch, ramp_points, faults)
    IN  [chassis |-> r.chassis,
         smu |-> IF HasSMU(variant) THEN SMU_shutdown(s) ELSE s,
         errors |-> r.errors]

NoCall == [n |-> 0, op |-> "none", ch |-> 0, arg |-> 0, faults |-> {}]

NextDevice ==
    LET order == DeviceOrder(config.variant)
    IN  IF pc = "init1" THEN order[1]
        ELSE IF pc = "init2" /\ Len(order) = 2 THEN order[2]
        ELSE "none"

AfterDevice ==
    IF pc = "init1" /\ Len(DeviceOrder(config.variant)) = 2
    THEN "init2" ELSE "register"

\* The states in which run() is executing (inside the try block of main.py).
RunPCs == {"run_start", "loop", "set", "measure_smu", "measure_daq", "flush",
           "run_shutdown"}

runVars == <<input_data, idx, results, sink>>

Init ==
    /\ config \in Configs
    /\ pc = "init1"
    /\ exc = "none"
    /\ runResult = "none"
    /\ hooks = FALSE
    /\ smu = NoSMU
    /\ smuLog = <<>>
    /\ chassis = NoChassis
    /\ input_data = <<>>
    /\ idx = 0
    /\ results = <<>>
    /\ sink = <<>>
    /\ shutdownCalls = 0
    /\ warnings = 0
    /\ errors = 0
    /\ last = NoCall

\* self.smu = SMU(setupManager) in a controller's __init__.  An exception
\* leaves main.py (the constructor call is outside its try block): the process
\* ends through its exit hooks.
ConstructSMU(present, choice) ==
    /\ pc \in {"init1", "init2"}
    /\ NextDevice = "SMU"
    /\ LET r == SMU_init(config, present, choice)
       IN  /\ smu' = r.smu
           /\ smuLog' = r.log
           /\ warnings' = warnings + r.warnings
           /\ errors' = errors + r.errors
           /\ exc' = r.exc
           /\ pc' = IF r.exc = "none" THEN AfterDevice ELSE "atexit"
    /\ UNCHANGED <<config, runResult, hooks, chassis, runVars, shutdownCalls, last>>

\* self.nidaq = NIDAQ_chassis(setupManager) in a controller's __init__.
ConstructChassis(attached, faults) ==
    /\ pc \in {"init1", "init2"}
    /\ NextDevice = "NIDAQ"
    /\ faults \subseteq DOMAIN config.control_voltages
    /\ LET r == NIDAQ_chassis_init(config, attached, faults)
       IN  /\ chassis' = r.chassis
           /\ errors' = errors + r.errors
           /\ exc' = r.exc
           /\ pc' = IF r.exc = "none" THEN AfterDevice ELSE "atexit"
    /\ UNCHANGED <<config, runResult, hooks, smu, smuLog, runVars, shutdownCalls,
                   warnings, last>>

\* atexit.register(self.shutdown), the last statement of every __init__.
RegisterHook ==
    /\ pc = "register"
    /\ hooks' = TRUE
    /\ pc' = "run_start"
    /\ UNCHANGED <<config, exc, runResult, smu, smuLog, chassis, runVars,
                   shutdownCalls, warnings, errors, last>>

\* The operator's interrupt while the controller is being constructed: the
\* KeyboardInterrupt is raised outside the try block of main.py.
InterruptInit ==
    /\ pc \in {"init2", "register"}
    /\ exc' = "KeyboardInterrupt"
    /\ pc' = "atexit"
    /\ UNCHANGED <<config, runResult, hooks, smu, smuLog, chassis, runVars,
                   shutdownCalls, warnings, errors, last>>

\* Faulty variant of RunStart: run() reads its input without having called
\* start_active_all_channels().
RunStart_without_activation(failAt) ==
    /\ pc = "run_start"
    /\ failAt = 0
    /\ pc' = "loop"
    /\ runResult' = "running"
    /\ input_data' = get_input_data(config)
    /\ UNCHANGED <<config, exc, hooks, smu, smuLog, chassis, idx, results, sink,
                   shutdownCalls, warnings, errors, last>>

\* run(): start_active_all_channels() and get_input_data().
RunStart(failAt) ==
    /\ pc = "run_start"
    /\ failAt \in DOMAIN chassis.activation_voltages \cup {0}
    /\ LET r == start_active_all_channels(chassis, failAt)
       IN  /\ chassis' = r.chassis
           /\ exc' = r.exc
           /\ IF r.exc = "none"
              THEN /\ pc' = "loop"
                   /\ runResult' = "running"
                   /\ input_data' = get_input_data(config)
              ELSE /\ pc' = "finally"
                   /\ runResult' = "raised"
                   /\ input_data' = input_data
    /\ UNCHANGED <<config, hooks, smu, smuLog, idx, results, sink, shutdownCalls,
                   warnings, errors, last>>

\* The head of the for loop of run(): the next setpoint, or the end of the sweep.
Loop ==
    /\ pc = "loop"
    /\ IF idx < Len(input_data)
       THEN /\ idx' = idx + 1
            /\ pc' = "set"
       ELSE /\ idx' = idx
            /\ pc' = "flush"
    /\ UNCHANGED <<config, exc, runResult, hooks, smu, smuLog, chassis, input_data,
                   results, sink, shutdownCalls, warnings, errors, last>>

\* The actuation of one step: smu.set_current (RNPU_Experiment), smu.set_voltage
\* (NGR_Experiment) or nidaq.set_voltage(6, x) (VI_NIDAQ_Only).
StepSet(fault) ==
    /\ pc = "set"
    /\ LET x == input_data[idx]
       IN  IF HasSMU(config.variant)
           THEN LET r == IF config.variant = "RNPU_Experiment"
                         THEN SMU_set_current(smu, x)
                         ELSE SMU_set_voltage(smu, x)
                IN  /\ ~fault
                    /\ smu' = r.smu
                    /\ warnings' = warnings + r.warnings
                    /\ pc' = "measure_smu"
                    /\ UNCHANGED <<chassis, exc, runResult, errors>>
           ELSE LET r == chassis_set_voltage(chassis, VI_ACTIVATION_ID, x, FALSE,
                                             config.ramp_points, fault)
                IN  /\ chassis' = r.chassis
                    /\ errors' = errors + r.errors
                    /\ exc' = r.exc
                    /\ pc' = IF r.exc = "none" THEN "measure_daq" ELSE "finally"
                    /\ runResult' = IF r.exc = "none" THEN runResult ELSE "raised"
                    /\ UNCHANGED <<smu, warnings>>
    /\ UNCHANGED <<config, hooks, smuLog, runVars, shutdownCalls, last>>

\* The SMU read-back of one step: smu.measure_voltage (RNPU_Experiment) or
\* smu.measure_current (NGR_Experiment).
StepMeasureSMU(reading) ==
    /\ pc = "measure_smu"
    /\ LET r == SMU_measure(smu, reading)
       IN  /\ errors' = errors + r.errors
           /\ exc' = r.exc
           /\ pc' = IF r.exc = "none" THEN "measure_daq" ELSE "finally"
           /\ runResult' = IF r.exc = "none" THEN runResult ELSE "raised"
    /\ UNCHANGED <<config, hooks, smu, smuLog, chassis, runVars, shutdownCalls,
                   warnings, last>>

\* The readout channels the chassis sample of one step acquires on.
ReadoutAddressed ==
    CASE config.variant = "RNPU_Experiment" -> DOMAIN chassis.readout_channels
      [] config.variant = "NGR_Experiment" ->
            {NGR_READOUT_ID} \cap DOMAIN chassis.readout_channels
      [] config.variant = "VI_NIDAQ_Only" ->
            {VI_READOUT_ID} \cap DOMAIN chassis.readout_channels

\* The chassis sample of one step, appended to the results, and the log line.
StepMeasureDAQ(failAt) ==
    /\ pc = "measure_daq"
    /\ failAt \in ReadoutAddressed \cup {0}
    /\ LET outcome == IF failAt = 0 THEN "samples" ELSE "DaqError"
           r == CASE config.variant = "RNPU_Experiment" ->
                        measure_current_all_channels(chassis, failAt)
                  [] config.variant = "NGR_Experiment" ->
                        chassis_measure_current(chassis, NGR_READOUT_ID, outcome)
                  [] config.variant = "VI_NIDAQ_Only" ->
                        chassis_measure_current(chassis, VI_READOUT_ID, outcome)
       IN  /\ exc' = r.exc
           /\ IF r.exc = "none"
              THEN /\ results' = Append(results, [setpoint |-> input_data[idx],
                                                  readings |-> r.readings])
                   /\ pc' = "loop"
                   /\ runResult' = runResult
              ELSE /\ results' = results
                   /\ pc' = "finally"
                   /\ runResult' = "raised"
    /\ UNCHANGED <<config, hooks, smu, smuLog, chassis, input_data, idx, sink,
                   shutdownCalls, warnings, errors, last>>

\* Faulty variant of Flush: every controller goes on to shutdown() after the
\* write.
Flush_then_shutdown ==
    /\ pc = "flush"
    /\ sink' = Append(sink, results)
    /\ pc' = "run_shutdown"
    /\ runResult' = runResult
    /\ UNCHANGED <<config, exc, hooks, smu, smuLog, chassis, input_data, idx,
                   results, shutdownCalls, warnings, errors, last>>

\* Faulty variant of Flush: run() ends without writing its results.
Flush_dropped ==
    /\ pc = "flush"
    /\ sink' = sink
    /\ IF config.variant = "RNPU_Experiment"
       THEN /\ pc' = "run_shutdown"
            /\ runResult' = runResult
       ELSE /\ pc' = "finally"
            /\ runResult' = "returned"
    /\ UNCHANGED <<config, exc, hooks, smu, smuLog, chassis, input_data, idx,
                   results, shutdownCalls, warnings, errors, last>>

\* The flush at the end of run(): write_voltage(voltages) (RNPU_Experiment) or
\* write_current_numpy(currents).  Only RNPU_Experiment goes on to shutdown().
Flush ==
    /\ pc = "flush"
    /\ sink' = Append(sink, results)
    /\ IF config.variant = "RNPU_Experiment"
       THEN /\ pc' = "run_shutdown"
            /\ runResult' = runResult
       ELSE /\ pc' = "finally"
            /\ runResult' = "returned"
    /\ UNCHANGED <<config, exc, hooks, smu, smuLog, chassis, input_data, idx,
                   results, shutdownCalls, warnings, errors, last>>

\* self.shutdown() at the end of RNPU_Experiment.run().
RunShutdown(faults) ==
    /\ pc = "run_shutdown"
    /\ faults \subseteq DOMAIN chassis.activation_channels
    /\ LET r == Experiment_shutdown(config.variant, chassis, smu,
                                    config.ramp_points, faults)
       IN  /\ chassis' = r.chassis
           /\ smu' = r.smu
           /\ errors' = errors + r.errors
    /\ shutdownCalls' = shutdownCalls + 1
    /\ pc' = "finally"
    /\ runResult' = "returned"
    /\ UNCHANGED <<config, exc, hooks, smuLog, runVars, warnings, last>>

\* The operator's interrupt during run(): main.py catches the
\* KeyboardInterrupt and passes.
Interrupt ==
    /\ pc \in RunPCs
    /\ pc' = "finally"
    /\ runResult' = "interrupted"
    /\ UNCHANGED <<config, exc, hooks, smu, smuLog, chassis, runVars,
                   shutdownCalls, warnings, errors, last>>

\* The finally block of main.py: log_warning, then experiment.shutdown().
Finally(faults) ==
    /\ pc = "finally"
    /\ faults \subseteq DOMAIN chassis.activation_channels
    /\ LET r == Experiment_shutdown(config.variant, chassis, smu,
                                    config.ramp_points, faults)
       IN  /\ chassis' = r.chassis
           /\ smu' = r.smu
           /\ errors' = errors + r.errors
    /\ warnings' = warnings + 1
    /\ shutdownCalls' = shutdownCalls + 1
    /\ pc' = "atexit"
    /\ UNCHANGED <<config, exc, runResult, hooks, smuLog, runVars, last>>

\* The end of the process: the exit hooks in reverse order of registration,
\* the controller's shutdown (when registered) and SetupManager._on_exit.
AtExit(faults) ==
    /\ pc = "atexit"
    /\ faults \subseteq DOMAIN chassis.activation_channels
    /\ LET r == Experiment_shutdown(config.variant, chassis, smu,
                                    config.ramp_points, faults)
           logged == IF hooks THEN errors + r.errors ELSE errors
       IN  /\ chassis' = IF hooks THEN r.chassis ELSE chassis
           /\ smu' = IF hooks THEN r.smu ELSE smu
           /\ errors' = logged
           /\ warnings' = IF logged > 0 THEN warnings + 1 ELSE warnings
           /\ ~hooks => faults = {}
    /\ shutdownCalls' = IF hooks THEN shutdownCalls + 1 ELSE shutdownCalls
    /\ pc' = "exited"
    /\ UNCHANGED <<config, exc, runResult, hooks, smuLog, runVars, last>>

Next ==
    \/ \E present \in BOOLEAN, choice \in {"Y", "N"} : ConstructSMU(present, choice)
    \/ \E attached \in SUBSET Modules,
          faults \in SUBSET (DOMAIN config.control_voltages) :
            ConstructChassis(attached, faults)
    \/ RegisterHook
    \/ InterruptInit
    \/ \E failAt \in DOMAIN chassis.activation_voltages \cup {0} : RunStart(failAt)
    \/ Loop
    \/ \E fault \in BOOLEAN : StepSet(fault)
    \/ \E reading \in {"value", "None"} : StepMeasureSMU(reading)
    \/ \E failAt \in ReadoutAddressed \cup {0} : StepMeasureDAQ(failAt)
    \/ Flush
    \/ \E faults \in SUBSET (DOMAIN chassis.activation_channels) : RunShutdown(faults)
    \/ Interrupt
    \/ \E faults \in SUBSET (DOMAIN chassis.activation_channels) : Finally(faults)
    \/ \E faults \in SUBSET (DOMAIN chassis.activation_channels) : AtExit(faults)

Spec == Init /\ [][Next]_vars

(***************************************************************************)
(* DevSpec: the public operations of a constructed SMU and a constructed   *)
(* chassis, called directly in any order with any argument.  last records  *)
(* the call made (n counts the calls) and exc what the call raised.        *)
(***************************************************************************)
DevConfigs ==
    {c \in Configs :
        /\ c.variant = "RNPU_Experiment"
        /\ c.drive_mode \in {CURRENT, VOLTAGE}
        /\ c.control_voltages = [a \in {1, VI_ACTIVATION_ID} |->
                                    IF a = 1 THEN 1 ELSE MaxVolt]
        /\ c.readout_channels = {NGR_READOUT_ID, VI_READOUT_ID}}

DevArgs == {-MaxVolt, 0, MaxVolt}

DevInit ==
    /\ config \in DevConfigs
    /\ pc = "devices"
    /\ exc = "none"
    /\ runResult = "none"
    /\ hooks = FALSE
    /\ smu = SMU_init(config, TRUE, "Y").smu
    /\ smuLog = SMU_init(config, TRUE, "Y").log
    /\ chassis = NIDAQ_chassis_init(config, Modules, {}).chassis
    /\ input_data = <<>>
    /\ idx = 0
    /\ results = <<>>
    /\ sink = <<>>
    /\ shutdownCalls = 0
    /\ warnings = 0
    /\ errors = 0
    /\ last = NoCall

devFrame == <<config, pc, runResult, hooks, smuLog, runVars, shutdownCalls>>

Called(op, ch, arg, faults) ==
    /\ pc = "devices"
    /\ last.n < MaxCalls
    /\ last' = [n |-> last.n + 1, op |-> op, ch |-> ch, arg |-> arg,
                faults |-> faults]

Dev_SMU_set_voltage(x) ==
    /\ Called("SMU.set_voltage", 0, x, {})
    /\ smu' = SMU_set_voltage(smu, x).smu
    /\ warnings' = warnings + SMU_set_voltage(smu, x).warnings
    /\ exc' = "none"
    /\ UNCHANGED <<devFrame, chassis, errors>>

Dev_SMU_set_current(x) ==
    /\ Called("SMU.set_current", 0, x, {})
    /\ smu' = SMU_set_current(smu, x).smu
    /\ warnings' = warnings + SMU_set_current(smu, x).warnings
    /\ exc' = "none"
    /\ UNCHANGED <<devFrame, chassis, errors>>

Dev_SMU_shutdown ==
    /\ Called("SMU.shutdown", 0, 0, {})
    /\ smu' = SMU_shutdown(smu)
    /\ exc' = "none"
    /\ UNCHANGED <<devFrame, chassis, warnings, errors>>

Dev_ramp_to_voltage(c, target, fault) ==
    /\ Called("NIDAQ_channel.ramp_to_voltage", c, target,
              IF fault THEN {c} ELSE {})
    /\ LET r == ramp_to_voltage(chassis.activation_channels[c], target,
                                config.ramp_points, fault)
       IN  /\ chassis' = [chassis EXCEPT !.activation_channels[c] = r.channel]
           /\ errors' = errors + r.errors
           /\ exc' = r.exc
    /\ UNCHANGED <<devFrame, smu, warnings>>

Dev_set_voltage(c, target, fault) ==
    /\ Called("NIDAQ_channel.set_voltage", c, target, IF fault THEN {c} ELSE {})
    /\ LET r == set_voltage(chassis.activation_channels[c], target, fault)
       IN  /\ chassis' = [chassis EXCEPT !.activation_channels[c] = r.channel]
           /\ errors' = errors + r.errors
           /\ exc' = r.exc
    /\ UNCHANGED <<devFrame, smu, warnings>>

Dev_start_active_all_channels(failAt) ==
    /\ Called("NIDAQ_chassis.start_active_all_channels", 0, 0,
              IF failAt = 0 THEN {} ELSE {failAt})
    /\ LET r == start_active_all_channels(chassis, failAt)
       IN  /\ chassis' = r.chassis
           /\ exc' = r.exc
    /\ UNCHANGED <<devFrame, smu, warnings, errors>>

Dev_chassis_shutdown(faults) ==
    /\ Called("NIDAQ_chassis.shutdown", 0, 0, faults)
    /\ LET r == chassis_shutdown(chassis, config.ramp_points, faults)
       IN  /\ chassis' = r.chassis
           /\ errors' = errors + r.errors
    /\ exc' = "none"
    /\ UNCHANGED <<devFrame, smu, warnings>>

\* SMU.measure_voltage / SMU.measure_current
Dev_SMU_measure(kind, reading) ==
    /\ Called("SMU.measure_" \o kind, 0, 0, {})
    /\ LET r == SMU_measure(smu, reading)
       IN  /\ exc' = r.exc
           /\ errors' = errors + r.errors
    /\ UNCHANGED <<devFrame, smu, chassis, warnings>>

\* SMU.is_callibrated; results holds the arguments and the value returned.
Dev_is_callibrated(voltage, current, tolerance_voltage, tolerance_current) ==
    /\ Called("SMU.is_callibrated", 0, 0, {})
    /\ results' = <<[args |-> <<voltage, current, tolerance_voltage,
                                 tolerance_current>>,
                     value |-> is_callibrated(voltage, current, tolerance_voltage,
                                              tolerance_current)]>>
    /\ exc' = "none"
    /\ UNCHANGED <<config, pc, runResult, hooks, smuLog, input_data, idx, sink,
                   shutdownCalls, smu, chassis, warnings, errors>>

\* NIDAQ_channel.measure_voltage / measure_current on readout channel c;
\* results holds the object read and the value returned.
Dev_measure(c, kind, data, fault) ==
    /\ Called("NIDAQ_channel.measure_" \o kind, c, 0, IF fault THEN {c} ELSE {})
    /\ fault => data.samples = <<>>
    /\ LET r == NIDAQ_channel_measure(kind, data, fault)
       IN  /\ results' = <<[data |-> data, value |-> r.value]>>
           /\ exc' = r.exc
           /\ errors' = errors + r.errors
    /\ UNCHANGED <<config, pc, runResult, hooks, smuLog, input_data, idx, sink,
                   shutdownCalls, smu, chassis, warnings>>

DevNext ==
    \/ \E x \in DevArgs : Dev_SMU_set_voltage(x)
    \/ \E x \in DevArgs : Dev_SMU_set_current(x)
    \/ Dev_SMU_shutdown
    \/ \E kind \in {"voltage", "current"}, reading \in {"value", "None"} :
          Dev_SMU_measure(kind, reading)
    \/ \E x \in {0, MaxVolt} : Dev_is_callibrated(x, x, 1, 1)
    \/ \E c \in DOMAIN chassis.activation_channels, target \in DevArgs,
          fault \in BOOLEAN : Dev_ramp_to_voltage(c, target, fault)
    \/ \E c \in DOMAIN chassis.activation_channels, target \in DevArgs,
          fault \in BOOLEAN : Dev_set_voltage(c, target, fault)
    \/ \E failAt \in DOMAIN chassis.activation_channels \cup {0} :
          Dev_start_active_all_channels(failAt)
    \/ \E faults \in SUBSET (DOMAIN chassis.activation_channels) :
          Dev_chassis_shutdown(faults)

DevSpec == DevInit /\ [][DevNext]_vars

(***************************************************************************)
(* LimitSpec: the construction of an SMU under every voltage_range and     *)
(* current_range with bounds in -MaxVolt..MaxVolt.                         *)
(***************************************************************************)
LimitConfigs ==
    {[c EXCEPT !.voltage_range = vr, !.current_range = cr] :
        c \in {d \in DevConfigs : d.ramp_points = 1},
        vr \in Volts \X Volts, cr \in Volts \X Volts}

LimitInit ==
    /\ config \in LimitConfigs
    /\ pc = "init1"
    /\ exc = "none"
    /\ runResult = "none"
    /\ hooks = FALSE
    /\ smu = NoSMU
    /\ smuLog = <<>>
    /\ chassis = NoChassis
    /\ input_data = <<>>
    /\ idx = 0
    /\ results = <<>>
    /\ sink = <<>>
    /\ shutdownCalls = 0
    /\ warnings = 0
    /\ errors = 0
    /\ last = NoCall

LimitNext ==
    \E present \in BOOLEAN, choice \in {"Y", "N"} : ConstructSMU(present, choice)

LimitSpec == LimitInit /\ [][LimitNext]_vars

(***************************************************************************)
(* QuerySpec: the operations of the device layer that command nothing      *)
(* (the acquisitions and is_callibrated), called directly on constructed   *)
(* devices with every argument and every answer of the hardware.           *)
(***************************************************************************)
CalArgs == {-MaxVolt, 1}

CalTols == {1, MaxVolt}

QueryNext ==
    \/ \E c \in DOMAIN chassis.readout_channels, kind \in {"voltage", "current"},
          data \in Reads, fault \in BOOLEAN : Dev_measure(c, kind, data, fault)
    \/ \E v \in CalArgs, i \in CalArgs, tv \in CalTols, ti \in CalTols :
          Dev_is_callibrated(v, i, tv, ti)
    \/ \E kind \in {"voltage", "current"}, reading \in {"value", "None"} :
          Dev_SMU_measure(kind, reading)

QuerySpec == DevInit /\ [][QueryNext]_vars

(***************************************************************************)
(* WaveSpec: the constructor of Waveform on every tag, every pair of       *)
(* min_value and max_value and every datapoint_per_section of the bounds.  *)
(* last.arg holds the arguments, input_data the data generated.            *)
(***************************************************************************)
WaveArgs ==
    [type : WaveTags,
     min_value : (-MaxWave)..MaxWave,
     max_value : (-MaxWave)..MaxWave,
     datapoint_per_section : 1..MaxPoints]

WaveInit ==
    /\ config = CHOOSE c \in DevConfigs : TRUE
    /\ pc = "waveform"
    /\ exc = "none"
    /\ runResult = "none"
    /\ hooks = FALSE
    /\ smu = NoSMU
    /\ smuLog = <<>>
    /\ chassis = NoChassis
    /\ input_data = <<>>
    /\ idx = 0
    /\ results = <<>>
    /\ sink = <<>>
    /\ shutdownCalls = 0
    /\ warnings = 0
    /\ errors = 0
    /\ last \in [n : {0}, op : {"Waveform.__init__"}, ch : {0}, arg : WaveArgs,
                 faults : {{}}]

\* Waveform(type, min_value, max_value, datapoint_per_section)
Waveform_new ==
    /\ pc = "waveform"
    /\ LET a == last.arg
           r == Waveform_init(a.type, a.min_value, a.max_value,
                              a.datapoint_per_section)
       IN  /\ input_data' = r.data
           /\ exc' = r.exc
           /\ errors' = errors + r.errors
    /\ pc' = "constructed"
    /\ last' = [last EXCEPT !.n = 1]
    /\ UNCHANGED <<config, runResult, hooks, smu, smuLog, chassis, idx, results,
                   sink, shutdownCalls, warnings>>

WaveNext == Waveform_new

WaveSpec == WaveInit /\ [][WaveNext]_vars

(***************************************************************************)
(* Properties                                                              *)
(***************************************************************************)
ActIds == DOMAIN chassis.activation_channels

\* The hardware commands shutdown() issues, counted since the start: the write
\* tasks on each activation channel and the SMU's shutdown command.
HwCommands ==
    [bursts |-> [c \in ActIds |-> chassis.activation_channels[c].bursts],
     smu |-> smu.dev.shutdowns]

\* The position of cmd in log, 0 when it is not there.
Pos(log, cmd) ==
    IF \E i \in DOMAIN log : log[i] = cmd
    THEN CHOOSE i \in DOMAIN log : log[i] = cmd
    ELSE 0

\* The controller's constructor raised: the process is ending (or has ended)
\* without run() having been entered and without the exit hook registered.
ConstructionFailed ==
    /\ pc \in {"atexit", "exited"}
    /\ ~hooks
    /\ exc \in {"DeviceNotFoundError", "BadConfigError", "AttributeError"}

\* C1: on every exit path the controller's shutdown is executed exactly once:
\* never more than once, the SMU is de-energized by one call only, and a
\* process that ends with the hook registered has run it once.
C1_ShutdownExactlyOnce ==
    /\ shutdownCalls <= 1
    /\ smu.dev.shutdowns <= 1
    /\ (pc = "exited" /\ hooks) => shutdownCalls = 1

\* C2: when the process has ended, every device that was energized or
\* commanded (SMU output enabled, an activation channel written) has been shut
\* down, whatever the path: success, interrupt, exception, failed construction.
C2_EveryExitShutsDown ==
    pc = "exited" =>
        /\ Pos(smuLog, "enable_source") > 0 => smu.dev.shutdowns >= 1
        /\ (\E c \in ActIds : chassis.activation_channels[c].bursts > 0)
              => shutdownCalls >= 1

\* C3: shutdown is idempotent: an invocation of shutdown() after the first
\* issues no further hardware command.
C3_ShutdownIdempotent ==
    [][(shutdownCalls >= 1 /\ shutdownCalls' = shutdownCalls + 1)
          => HwCommands' = HwCommands]_vars

\* C4: a NoMeasurementError raised at step k does not leave run(): the sweep
\* goes on to the last setpoint and one flush holds K - 1 entries.
C4_SweepSurvivesNoMeasurement ==
    exc = "NoMeasurementError" =>
        /\ runResult # "raised"
        /\ pc = "exited" =>
              /\ idx = Len(input_data)
              /\ Len(sink) = 1
              /\ Len(sink[1]) = Len(input_data) - 1

C6_LimitsAndGateBeforeOutput ==
    LET enabled == Pos(smuLog, "enable_source")
    IN  /\ smu.dev.output => enabled > 0
        /\ enabled > 0 =>
              /\ 0 < Pos(smuLog, "compliance_voltage")
              /\ Pos(smuLog, "compliance_voltage") < enabled
              /\ 0 < Pos(smuLog, "compliance_current")
              /\ Pos(smuLog, "compliance_current") < enabled
              /\ 0 < Pos(smuLog, "wait_for_user_input:Y")
              /\ Pos(smuLog, "wait_for_user_input:Y") < enabled
              /\ smu.dev.compliance_voltage = MinAbs(config.voltage_range)
              /\ smu.dev.compliance_current = MinAbs(config.current_range)
        /\ Pos(smuLog, "wait_for_user_input:N") > 0 =>
              /\ enabled = 0
              /\ ~smu.dev.output

C6_Witness ==
    /\ smu.dev.output
    /\ Pos(smuLog, "wait_for_user_input:Y") > 0
    /\ pc = "run_start"

\* C7: when the construction of a controller fails, no SMU output has been
\* enabled and no activation channel has been commanded to a non-zero value.
C7_FailedConstructionEnergizesNothing ==
    ConstructionFailed =>
        /\ ~smu.dev.output
        /\ \A c \in ActIds : ~chassis.activation_channels[c].nonzero

\* C8: from the end of NIDAQ_chassis.__init__ until run() starts, every
\* configured activation channel has last commanded value 0, whatever its
\* static target and whether or not its zeroing ramp faulted, and has been
\* written nothing but zeros.
C8_ZeroBeforeEnergize ==
    (chassis.constructed /\ runResult = "none") =>
        /\ ActIds = DOMAIN config.control_voltages
        /\ \A c \in ActIds :
              LET ch == chassis.activation_channels[c]
              IN  /\ ch.voltage = 0
                  /\ ~ch.nonzero
                  /\ \A i \in DOMAIN ch.lastBurst : ch.lastBurst[i] = 0

C8_Witness ==
    /\ chassis.constructed
    /\ runResult = "none"
    /\ pc = "register"
    /\ errors > 0
    /\ \E c \in ActIds : /\ config.control_voltages[c] = MaxVolt
                         /\ chassis.activation_channels[c].bursts = 1

\* A direct call of NIDAQ_channel.ramp_to_voltage has just been made.
RampCalled == last'.n = last.n + 1 /\ last'.op = "NIDAQ_channel.ramp_to_voltage"

SetCalled == last'.n = last.n + 1 /\ last'.op = "NIDAQ_channel.set_voltage"

C11_StepFaultContinues ==
    (idx > 0 /\ exc = "DaqError") =>
        /\ runResult # "raised"
        /\ pc = "exited" => idx = Len(input_data)

\* C12: an operator interrupt never takes effect between the actuation of a
\* step and its read-back (setpoint commanded, read-back still to come): the
\* step in flight is completed first.
C12_InterruptOnlyAtLoopHead ==
    [][(runResult # "interrupted" /\ runResult' = "interrupted")
          => pc \notin {"measure_smu", "measure_daq"}]_vars

\* C13: on normal completion, for every controller, the results are flushed
\* exactly once, one record per setpoint in setpoint order, and shutdown runs
\* after the flush and never before it.
C13_FlushOnceThenShutdown ==
    /\ Len(sink) <= 1
    /\ (shutdownCalls > 0 /\ runResult \notin {"interrupted", "raised"})
          => Len(sink) = 1
    /\ runResult = "returned" =>
          /\ Len(sink) = 1
          /\ Len(sink[1]) = Len(input_data)
          /\ \A i \in DOMAIN sink[1] : sink[1][i].setpoint = input_data[i]
    /\ (runResult = "returned" /\ pc = "exited") => shutdownCalls >= 1

C13_Witness ==
    /\ pc = "exited"
    /\ runResult = "returned"
    /\ config.variant = "NGR_Experiment"
    /\ Len(sink) = 1
    /\ Len(sink[1]) = 8 * config.data_density
    /\ shutdownCalls >= 1

\* C14: when run() is abandoned (interrupt or exception) with records already
\* collected, the process does not end before those records have been flushed,
\* once, to the sink.
C14_AbandonedRunFlushes ==
    (pc = "exited" /\ runResult \in {"interrupted", "raised"} /\ Len(results) > 0)
        => /\ Len(sink) = 1
           /\ sink[1] = results

\* C15: a fault-free start_active_all_channels() brings every activation
\* channel from its last commanded value to its configured target by a ramp of
\* ramp_points samples, and leaves the target as last commanded value.
C15_StartRampsToTarget ==
    [][(/\ last'.n = last.n + 1
        /\ last'.op = "NIDAQ_chassis.start_active_all_channels"
        /\ last'.faults = {})
        => \A c \in ActIds :
              LET old == chassis.activation_channels[c]
                  new == chassis'.activation_channels[c]
              IN  /\ new.voltage = config.control_voltages[c]
                  /\ Len(new.lastBurst) = config.ramp_points
                  /\ new.lastBurst[1] = old.voltage]_vars

\* C16: every record of the current sweep with chassis read-back holds, for
\* exactly the configured readout channels, a current acquisition (never a
\* voltage acquisition).
C16_AllChannelsReadCurrent ==
    config.variant = "RNPU_Experiment" =>
        \A i \in DOMAIN results :
            /\ DOMAIN results[i].readings = config.readout_channels
            /\ \A c \in DOMAIN results[i].readings :
                  results[i].readings[c] = "current"

\* The constructor of the chassis raised (the devices constructed before it,
\* if any, are constructed).
ChassisConstructionFailed ==
    /\ ConstructionFailed
    /\ ~chassis.constructed
    /\ config.variant = "RNPU_Experiment" => smu.constructed

\* C17: a chassis construction that fails because a configured module is not
\* attached fails with DeviceNotFoundError.
C17_MissingModuleNotFound ==
    ChassisConstructionFailed => exc = "DeviceNotFoundError"

\* C18: a Sawtooth waveform has 3N values, a Linear waveform N values and a
\* MultiPhase (WILFRED) waveform 8N values, in sections of N, 2N, 2N, 2N and N
\* points (each section starts with its start value), for every N >= 1.
C18_WaveformLengths ==
    (pc = "constructed" /\ exc = "none") =>
        LET a == last.arg
            n == a.datapoint_per_section
            d == input_data
        IN  /\ a.type = "SAWTOOTH" => Len(d) = 3 * n
            /\ a.type = "LINSPACE" => Len(d) = n
            /\ a.type = "WILFRED" =>
                  /\ Len(d) = 8 * n
                  /\ d[1] = 0
                  /\ d[n + 1] = a.min_value
                  /\ d[3 * n + 1] = a.max_value
                  /\ d[5 * n + 1] = a.min_value
                  /\ d[7 * n + 1] = a.max_value

C18_Witness ==
    /\ pc = "constructed"
    /\ last.arg.type = "WILFRED"
    /\ last.arg.datapoint_per_section = MaxPoints
    /\ last.arg.min_value < last.arg.max_value
    /\ Len(input_data) = 8 * MaxPoints

\* seq runs from a to b: it never moves against the direction from a to b and,
\* when it has at least two points, starts at a and ends at b.
RunsFromTo(seq, a, b) ==
    /\ \A i \in 1..(Len(seq) - 1) :
          IF a <= b THEN seq[i] <= seq[i + 1] ELSE seq[i] >= seq[i + 1]
    /\ Len(seq) >= 2 => (seq[1] = a /\ seq[Len(seq)] = b)

C20_UnknownTagBadConfig ==
    (pc = "constructed" /\ last.arg.type \notin WaveTypes) =>
        /\ exc = "BadConfigError"
        /\ input_data = <<>>

\* A direct call of a channel acquisition has just returned or raised.
MeasureCalled ==
    /\ last'.n = last.n + 1
    /\ last'.op \in {"NIDAQ_channel.measure_voltage", "NIDAQ_channel.measure_current"}

\* C21: a channel acquisition that completes without bus fault fails with
\* NoMeasurementError when it yields no sample, and otherwise returns the mean
\* of the samples.
C21_EmptyAcquisitionRaises ==
    [][(MeasureCalled /\ last'.faults = {}) =>
        LET d == results'[1].data.samples
        IN  IF d = <<>>
            THEN exc' = "NoMeasurementError"
            ELSE /\ exc' = "none"
                 /\ results'[1].value = [nan |-> FALSE, v |-> Sum(d) \div Len(d)]]_vars

\* C22: SMU construction with a drive_mode that is neither CURRENT_DRIVEN nor
\* VOLTAGE_DRIVEN fails with BadConfigError without having pushed a compliance
\* limit, shown the operator gate or enabled the output; construction with an
\* absent device fails with DeviceNotFoundError before any device command.
C22_BadModeAndAbsentDeviceFailEarly ==
    /\ (smu.dev.connected /\ config.drive_mode \notin {CURRENT, VOLTAGE})
          => exc = "BadConfigError"
    /\ exc = "BadConfigError" =>
          /\ config.drive_mode \notin {CURRENT, VOLTAGE}
          /\ ~smu.constructed
          /\ Pos(smuLog, "compliance_voltage") = 0
          /\ Pos(smuLog, "compliance_current") = 0
          /\ smu.dev.compliance_voltage = NoDevice.compliance_voltage
          /\ smu.dev.compliance_current = NoDevice.compliance_current
          /\ Pos(smuLog, "wait_for_user_input:Y") = 0
          /\ Pos(smuLog, "wait_for_user_input:N") = 0
          /\ Pos(smuLog, "enable_source") = 0
          /\ ~smu.dev.output
    /\ exc = "DeviceNotFoundError" =>
          /\ ~smu.constructed
          /\ ~smu.dev.connected
          /\ smuLog = <<>>
          /\ smu.dev = NoDevice

C22_Witness ==
    /\ exc = "BadConfigError"
    /\ config.drive_mode = "CURENT_DRIVEN"
    /\ smu.dev.connected
    /\ smuLog = <<"reset", "clear">>
    /\ pc = "exited"

\* The drive mode the SMU is bound to and the compliance limits, as the object
\* holds them and as the device holds them.
SMUBinding ==
    [drive_mode |-> smu.drive_mode,
     source_mode |-> smu.dev.source_mode,
     compliance_voltage |-> smu.compliance_voltage,
     compliance_current |-> smu.compliance_current,
     dev_compliance_voltage |-> smu.dev.compliance_voltage,
     dev_compliance_current |-> smu.dev.compliance_current]

\* C23: on a constructed SMU no operation (set_voltage, set_current,
\* measure_voltage, measure_current, is_callibrated, shutdown), in any order,
\* changes the bound drive mode or the compliance limits of the object and of
\* the device, which stay the ones of the configuration.
C23_BindingAndLimitsFrozen ==
    [][smu.constructed =>
        /\ SMUBinding' = SMUBinding
        /\ smu'.drive_mode = config.drive_mode
        /\ smu'.dev.compliance_voltage = MinAbs(config.voltage_range)
        /\ smu'.dev.compliance_current = MinAbs(config.current_range)]_vars

C23_Witness ==
    /\ last.n = MaxCalls
    /\ last.op = "SMU.shutdown"
    /\ smu.dev.ramps = 1
    /\ smu.dev.shutdowns = 1
    /\ smu.drive_mode = CURRENT
    /\ smu.dev.source_mode = "current"
    /\ smu.dev.compliance_voltage = MinAbs(config.voltage_range)

\* C24: chassis shutdown() issues one ramp to 0 on every activation channel,
\* whatever its last commanded value (a ramp_points burst from that value,
\* ending at 0 when it has two points or more), and nothing on the readout
\* channels; a channel whose ramp did not fault has last commanded value 0.
C24_ChassisShutdownRampsAll ==
    [][(last'.n = last.n + 1 /\ last'.op = "NIDAQ_chassis.shutdown") =>
        /\ DOMAIN chassis'.activation_channels = ActIds
        /\ \A c \in ActIds :
              LET old == chassis.activation_channels[c]
                  new == chassis'.activation_channels[c]
              IN  /\ new.bursts = old.bursts + 1
                  /\ Len(new.lastBurst) = config.ramp_points
                  /\ new.lastBurst[1] = old.voltage
                  /\ config.ramp_points >= 2 =>
                        new.lastBurst[Len(new.lastBurst)] = 0
                  /\ new.voltage = IF c \in last'.faults THEN old.voltage ELSE 0
        /\ chassis'.readout_channels = chassis.readout_channels
        /\ exc' = "none"]_vars

C24_Witness ==
    /\ last.n = MaxCalls
    /\ last.op = "NIDAQ_chassis.shutdown"
    /\ last.faults = {}
    /\ \A c \in ActIds : chassis.activation_channels[c].voltage = 0
    /\ \E c \in ActIds : /\ chassis.activation_channels[c].bursts = 3
                         /\ chassis.activation_channels[c].lastBurst[1] # 0
    /\ \E c \in ActIds : /\ chassis.activation_channels[c].bursts = 2
                         /\ chassis.activation_channels[c].lastBurst[1] = 0

\* C25: in the current sweep with chassis read-back start_active_all_channels
\* has been invoked before the first setpoint is commanded; each step commands
\* the SMU current to the setpoint, then reads back the SMU voltage, then
\* samples the full readout set, in setpoint order; no setpoint is taken or
\* commanded before the record of the step before it has been appended.
C25_CurrentSweepStepOrder ==
    [][config.variant = "RNPU_Experiment" =>
        /\ (pc # "set" /\ pc' = "set") =>
              /\ runResult = "running"
              /\ \A c \in ActIds : chassis.activation_channels[c].bursts >= 2
        /\ idx' # idx =>
              /\ idx' = idx + 1
              /\ Len(results) = idx
        /\ (pc = "set" /\ pc' \notin {"set", "finally"}) =>
              /\ pc' = "measure_smu"
              /\ smu.drive_mode = CURRENT =>
                    /\ smu'.dev.level = input_data[idx]
                    /\ smu'.dev.ramps = smu.dev.ramps + 1
        /\ smu'.dev.ramps # smu.dev.ramps =>
              /\ pc = "set"
              /\ Len(results) = idx - 1
        /\ (pc = "measure_smu" /\ pc' \notin {"measure_smu", "finally"}) =>
              pc' = "measure_daq"
        /\ (pc = "measure_daq" /\ pc' \notin {"measure_daq", "finally"}) =>
              /\ pc' = "loop"
              /\ Len(results') = idx
              /\ SubSeq(results', 1, idx - 1) = results
              /\ results'[idx].setpoint = input_data[idx]
              /\ DOMAIN results'[idx].readings = config.readout_channels
        /\ results' # results => pc = "measure_daq"]_vars

C25_Witness ==
    /\ config.variant = "RNPU_Experiment"
    /\ config.drive_mode = CURRENT
    /\ pc = "flush"
    /\ idx = Len(input_data)
    /\ Len(results) = 8 * config.data_density
    /\ smu.dev.ramps = Len(results)
    /\ smu.dev.level = input_data[idx]

\* lim is the smallest of the magnitudes of the two bounds of range.
IsSmallestMagnitude(lim, range) ==
    /\ lim >= 0
    /\ \E k \in 1..2 : lim = range[k] \/ lim = -range[k]
    /\ \A k \in 1..2 : lim <= range[k] \/ lim <= -range[k]
    /\ (range[1] = 0 \/ range[2] = 0) => lim = 0

\* C26: the compliance voltage is min(|a|, |b|) of voltage_range [a, b] and the
\* compliance current min(|c|, |d|) of current_range [c, d], as held by the
\* object and as pushed to the device; a range with a bound of 0 gives 0.
C26_ComplianceIsSmallestMagnitude ==
    /\ pc # "init1" =>
          /\ IsSmallestMagnitude(smu.compliance_voltage, config.voltage_range)
          /\ IsSmallestMagnitude(smu.compliance_current, config.current_range)
    /\ smu.constructed =>
          /\ smu.dev.compliance_voltage = smu.compliance_voltage
          /\ smu.dev.compliance_current = smu.compliance_current

C26_Witness ==
    /\ smu.constructed
    /\ config.voltage_range = <<0, MaxVolt>>
    /\ smu.dev.compliance_voltage = 0
    /\ config.current_range = <<-MaxVolt, 1>>
    /\ smu.dev.compliance_current = 1

\* The magnitude of x is at most tol.
WithinTolerance(x, tol) == x <= tol /\ -x <= tol

\* C27: is_callibrated(voltage, current, tol_v, tol_i) returns true exactly
\* when |voltage| <= tol_v and |current| <= tol_i (equality counts as
\* within), changes no state and issues no device command.
C27_IsCalibratedIffWithin ==
    [][(last'.n = last.n + 1 /\ last'.op = "SMU.is_callibrated") =>
        LET a == results'[1].args
        IN  /\ results'[1].value =
                  (WithinTolerance(a[1], a[3]) /\ WithinTolerance(a[2], a[4]))
            /\ smu' = smu
            /\ chassis' = chassis
            /\ exc' = "none"
            /\ warnings' = warnings
            /\ errors' = errors]_vars

C27_Witness ==
    /\ last.op = "SMU.is_callibrated"
    /\ results[1].args = <<-MaxVolt, 1, MaxVolt, 1>>
    /\ results[1].value = TRUE

\* C28: a bus fault on the ramp of one activation channel during shutdown does
\* not raise: every invocation of the controller's shutdown() issues a ramp on
\* every activation channel and, where the controller owns an SMU, the SMU's
\* shutdown command, and leaves the pending exception as it was.
C28_ShutdownFaultIsolated ==
    [][shutdownCalls' = shutdownCalls + 1 =>
        /\ \A c \in ActIds :
              chassis'.activation_channels[c].bursts =
                  chassis.activation_channels[c].bursts + 1
        /\ HasSMU(config.variant) =>
              /\ smu'.dev.shutdowns = smu.dev.shutdowns + 1
              /\ ~smu'.dev.output
        /\ exc' = exc]_vars

C28_Witness ==
    /\ pc = "atexit"
    /\ shutdownCalls = 1
    /\ config.variant = "NGR_Experiment"
    /\ runResult = "returned"
    /\ Cardinality(ActIds) = 2
    /\ \E c \in ActIds : /\ chassis.activation_channels[c].voltage # 0
                         /\ chassis.activation_channels[c].bursts = 3
                         /\ \E d \in ActIds : /\ d > c
                                              /\ chassis.activation_channels[d].voltage = 0
                                              /\ chassis.activation_channels[d].bursts = 3
    /\ smu.dev.shutdowns = 1
    /\ ~smu.dev.output
    /\ errors >= 1

\* C29: the voltage sweep and the chassis-only sweep never shut down inside
\* run(): while run() executes and when it has returned to main.py nothing has
\* been de-energized (no shutdown invoked, SMU output enabled, the activation
\* channels at their last commanded values); only the current sweep has
\* called shutdown once when its run() returns.
C29_OnlyCurrentSweepShutsDownInRun ==
    /\ (config.variant # "RNPU_Experiment" /\ pc \in RunPCs \cup {"finally"}) =>
          /\ shutdownCalls = 0
          /\ smu.dev.shutdowns = 0
          /\ HasSMU(config.variant) => smu.dev.output
    /\ (config.variant # "RNPU_Experiment" /\ pc = "finally"
            /\ runResult = "returned") =>
          \A c \in ActIds :
              LET ch == chassis.activation_channels[c]
              IN  IF config.variant = "VI_NIDAQ_Only" /\ c = VI_ACTIVATION_ID
                  THEN /\ ch.voltage = input_data[Len(input_data)]
                       /\ ch.bursts = 2 + Len(input_data)
                  ELSE /\ ch.voltage = config.control_voltages[c]
                       /\ ch.bursts = 2
    /\ (config.variant = "RNPU_Experiment" /\ pc = "finally"
            /\ runResult = "returned") =>
          /\ shutdownCalls = 1
          /\ smu.dev.shutdowns = 1
          /\ ~smu.dev.output

C29_Witness ==
    /\ config.variant = "NGR_Experiment"
    /\ pc = "finally"
    /\ runResult = "returned"
    /\ Len(sink) = 1
    /\ smu.dev.output
    /\ shutdownCalls = 0
    /\ \E c \in ActIds : chassis.activation_channels[c].voltage = MaxVolt

\* A channel id a sweep addresses is not among the configured channels.
FixedIdMissing ==
    \/ /\ config.variant = "NGR_Experiment"
       /\ NGR_READOUT_ID \notin config.readout_channels
    \/ /\ config.variant = "VI_NIDAQ_Only"
       /\ \/ VI_ACTIVATION_ID \notin DOMAIN config.control_voltages
          \/ VI_READOUT_ID \notin config.readout_channels

\* C30: the voltage sweep addresses readout channel 5 and the chassis-only
\* sweep activation channel 6 and readout channel 13, whatever the
\* configuration.  With such an id not configured the sweep never gets past
\* its first step and flushes nothing; the failure is a lookup error (KeyError)
\* raised at the first step, after start_active_all_channels has energized
\* every activation channel.
C30_FixedIdsFailFirstStep ==
    /\ FixedIdMissing =>
          /\ idx <= 1
          /\ results = <<>>
          /\ sink = <<>>
          /\ runResult # "returned"
    /\ exc = "KeyError" =>
          /\ FixedIdMissing
          /\ runResult = "raised"
          /\ idx = 1
          /\ \A c \in ActIds :
                /\ chassis.activation_channels[c].bursts >= 2
                /\ chassis.activation_channels[c].nonzero
          /\ pc = "finally" =>
                \A c \in ActIds :
                    chassis.activation_channels[c].voltage =
                        IF config.variant = "VI_NIDAQ_Only" /\ c = VI_ACTIVATION_ID
                        THEN input_data[1]
                        ELSE config.control_voltages[c]

C30_Witness ==
    /\ exc = "KeyError"
    /\ config.variant = "VI_NIDAQ_Only"
    /\ VI_ACTIVATION_ID \in ActIds
    /\ VI_READOUT_ID \notin config.readout_channels
    /\ pc = "exited"
    /\ chassis.activation_channels[VI_ACTIVATION_ID].bursts >= 3
    /\ sink = <<>>

====
